---- MODULE Spec2Model ----
(***************************************************************************)
(* Model of gym/envs/toy_text/taxi.py: the construction of the Taxi        *)
(* environment (map selection, state enumeration, transition table P and   *)
(* initial-state distribution isd) and the index arithmetic of             *)
(* encode/decode.                                                          *)
(*                                                                         *)
(* Python lists and arrays are 0-based; TLA+ sequences are 1-based, so a   *)
(* Python index k into locs or desc is k+1 here.  P and isd are functions  *)
(* on 0..nS-1, as in the code.                                              *)
(***************************************************************************)
EXTENDS Integers, Sequences, FiniteSets, TLC

VARIABLES
    nL,        \* module global nL = int(os.environ["NUM_STOPS"])
    pc,        \* position in TaxiEnv.__init__
    raised,    \* the exception that ended __init__, "none" if none did
    desc,      \* self.desc, the character grid of MAP
    locs,      \* self.locs
    nS,        \* number of table rows allocated
    P,         \* transition table: state -> action -> list of outcomes
    isd,       \* initial-state distribution, each weight a fraction <<num, den>>
    row, col,  \* the counters of the two outer loops of __init__
    cpc,       \* position of an encode/decode round trip
    cargs,     \* the tuple handed to encode
    cidx,      \* the index encode returned
    cres,      \* the result of decode
    curS,      \* self.s, the current state index of an episode
    epi,       \* "none" before the first reset, then "running" or "over"
    picked,    \* history: a pickup succeeded since the last reset
    dest0      \* history: the destination index of the episode's start state

vars == << nL, pc, raised, desc, locs, nS, P, isd, row, col, cpc, cargs, cidx, cres,
           curS, epi, picked, dest0 >>

buildVars == << pc, raised, desc, locs, nS, P, isd, row, col >>
codecVars == << cpc, cargs, cidx, cres >>
runVars == << curS, epi, picked, dest0 >>

\* Largest value of NUM_STOPS tried.
MaxNumStops == 9

\* The location counts __init__ has a branch for.
SupportedL == {2, 4, 5, 6, 8}

nR == 5
nC == 5
nA == 6
maxR == nR - 1
maxC == nC - 1

Min(a, b) == IF a < b THEN a ELSE b
Max(a, b) == IF a > b THEN a ELSE b

MAP2 ==
    << << "+", "-", "-", "-", "-", "-", "-", "-", "-", "-", "+" >>,
       << "|", "A", ":", " ", "|", " ", ":", " ", ":", " ", "|" >>,
       << "|", " ", ":", " ", ":", " ", ":", " ", ":", " ", "|" >>,
       << "|", " ", ":", " ", ":", " ", ":", " ", ":", " ", "|" >>,
       << "|", " ", "|", " ", ":", " ", "|", " ", ":", " ", "|" >>,
       << "|", " ", "|", " ", ":", " ", "|", "B", ":", " ", "|" >>,
       << "+", "-", "-", "-", "-", "-", "-", "-", "-", "-", "+" >> >>

MAP4 ==
    << << "+", "-", "-", "-", "-", "-", "-", "-", "-", "-", "+" >>,
       << "|", "A", ":", " ", "|", " ", ":", " ", ":", "B", "|" >>,
       << "|", " ", ":", " ", ":", " ", ":", " ", ":", " ", "|" >>,
       << "|", " ", ":", " ", ":", " ", ":", " ", ":", " ", "|" >>,
       << "|", " ", "|", " ", ":", " ", "|", " ", ":", " ", "|" >>,
       << "|", "C", "|", " ", ":", " ", "|", "D", ":", " ", "|" >>,
       << "+", "-", "-", "-", "-", "-", "-", "-", "-", "-", "+" >> >>

MAP5 ==
    << << "+", "-", "-", "-", "-", "-", "-", "-", "-", "-", "+" >>,
       << "|", "A", ":", " ", "|", " ", ":", " ", ":", "B", "|" >>,
       << "|", " ", ":", " ", ":", " ", ":", " ", ":", " ", "|" >>,
       << "|", " ", ":", " ", ":", " ", ":", " ", ":", "C", "|" >>,
       << "|", " ", "|", " ", ":", " ", "|", " ", ":", " ", "|" >>,
       << "|", "D", "|", " ", ":", " ", "|", "E", ":", " ", "|" >>,
       << "+", "-", "-", "-", "-", "-", "-", "-", "-", "-", "+" >> >>

MAP6 ==
    << << "+", "-", "-", "-", "-", "-", "-", "-", "-", "-", "+" >>,
       << "|", "A", ":", " ", "|", " ", ":", " ", ":", "B", "|" >>,
       << "|", " ", ":", " ", ":", " ", ":", " ", ":", " ", "|" >>,
       << "|", " ", ":", "C", ":", "D", ":", " ", ":", " ", "|" >>,
       << "|", " ", "|", " ", ":", " ", "|", " ", ":", " ", "|" >>,
       << "|", "E", "|", " ", ":", " ", "|", "F", ":", " ", "|" >>,
       << "+", "-", "-", "-", "-", "-", "-", "-", "-", "-", "+" >> >>

MAP8 ==
    << << "+", "-", "-", "-", "-", "-", "-", "-", "-", "-", "+" >>,
       << "|", "A", ":", " ", "|", "B", ":", " ", ":", "C", "|" >>,
       << "|", " ", ":", "D", ":", " ", ":", " ", ":", " ", "|" >>,
       << "|", " ", ":", " ", ":", " ", ":", "E", ":", "F", "|" >>,
       << "|", " ", "|", " ", ":", " ", "|", " ", ":", " ", "|" >>,
       << "|", "G", "|", " ", ":", " ", "|", "H", ":", " ", "|" >>,
       << "+", "-", "-", "-", "-", "-", "-", "-", "-", "-", "+" >> >>

MapFor(L) ==
    CASE L = 2 -> MAP2
      [] L = 4 -> MAP4
      [] L = 5 -> MAP5
      [] L = 6 -> MAP6
      [] L = 8 -> MAP8

LocsFor(L) ==
    CASE L = 2 -> << <<0,0>>, <<4,3>> >>
      [] L = 4 -> << <<0,0>>, <<0,4>>, <<4,0>>, <<4,3>> >>
      [] L = 5 -> << <<0,0>>, <<0,4>>, <<2,4>>, <<4,0>>, <<4,3>> >>
      [] L = 6 -> << <<0,0>>, <<0,4>>, <<2,1>>, <<2,2>>, <<4,0>>, <<4,3>> >>
      [] L = 8 -> << <<0,0>>, <<0,2>>, <<1,1>>, <<2,3>>, <<2,4>>, <<0,4>>,
                     <<4,0>>, <<4,3>> >>

\* nS without the passenger's "in taxi" slot.
StateCountNoTaxiSlot(L) == nR * nC * L * L

\* nS as computed for location count L.
StateCount(L) ==
    IF L = 2 THEN nR * nC * L * (L + 1) * 2
             ELSE nR * nC * L * (L + 1)

\* encode: mixed-radix packing with radices 5, 5, 5 and nL.
encode(taxirow, taxicol, passloc, dest) ==
    LET i1 == taxirow
        i2 == i1 * 5
        i3 == i2 + taxicol
        i4 == i3 * 5
        i5 == i4 + passloc
        i6 == i5 * nL
        i7 == i6 + dest
    IN  i7

\* decode: successive modulo / floor division by nL, 5, 5; the assert on the
\* remaining row value either passes (ok) or raises AssertionError.
decode(i) ==
    LET o1 == i % nL
        j1 == i \div nL
        o2 == j1 % 5
        j2 == j1 \div 5
        o3 == j2 % 5
        j3 == j2 \div 5
        o4 == j3
    IN  IF 0 <= j3 /\ j3 < 5
        THEN [ok |-> TRUE,  val |-> << o4, o3, o2, o1 >>]
        ELSE [ok |-> FALSE, val |-> << >>]

\* taxiloc in locs
InLocs(taxiloc) == \E k \in 1..Len(locs) : locs[k] = taxiloc

\* locs.index(taxiloc): the 0-based position of the first match.
LocsIndex(taxiloc) ==
    (CHOOSE k \in 1..Len(locs) :
        /\ locs[k] = taxiloc
        /\ \A j \in 1..(k-1) : locs[j] # taxiloc) - 1

\* self.desc[r, c] with 0-based r, c
DescAt(r, c) == desc[r + 1][c + 1]

\* Variants of the loop body: a pickup that leaves the passenger where it is
\* ("nopickup"), a delivery that records the passenger at the destination
\* ("unload").
OutcomeVariant(r, c, p, d, a, kind) ==
    LET taxiloc == << r, c >>
        newrow  == IF a = 0 THEN Min(r + 1, maxR)
                   ELSE IF a = 1 THEN Max(r - 1, 0)
                   ELSE r
        east    == a = 2 /\ DescAt(1 + r, 2 * c + 2) = ":"
        west    == ~east /\ a = 3 /\ DescAt(1 + r, 2 * c) = ":"
        pickup  == ~east /\ ~west /\ a = 4
        dropoff == ~east /\ ~west /\ ~pickup /\ a = 5
        pickOk  == pickup /\ p < nL /\ taxiloc = locs[p + 1]
        dropEnd == dropoff /\ taxiloc = locs[d + 1] /\ p = nL
        dropLoc == dropoff /\ ~dropEnd /\ InLocs(taxiloc) /\ p = nL
        newcol  == IF east THEN Min(c + 1, maxC)
                   ELSE IF west THEN Max(c - 1, 0)
                   ELSE c
        newpassidx == IF pickOk /\ kind # "nopickup" THEN nL
                      ELSE IF dropEnd /\ kind = "unload" THEN d
                      ELSE IF dropLoc THEN LocsIndex(taxiloc)
                      ELSE p
        reward  == IF pickup /\ ~pickOk THEN -10
                   ELSE IF dropEnd THEN 20
                   ELSE IF dropoff /\ ~dropLoc THEN -10
                   ELSE -1
        done    == dropEnd
        newstate == encode(newrow, newcol, newpassidx, d)
    IN  << 1, newstate, reward, done >>

OutcomeNoPickup(r, c, p, d, a) == OutcomeVariant(r, c, p, d, a, "nopickup")

OutcomeUnloadsAtDestination(r, c, p, d, a) == OutcomeVariant(r, c, p, d, a, "unload")

\* The body of "for a in range(nA)" for one (row, col, passidx, destidx):
\* the outcome tuple (1.0, newstate, reward, done) appended to P[state][a].
Outcome(r, c, p, d, a) ==
    LET taxiloc == << r, c >>
        newrow  == IF a = 0 THEN Min(r + 1, maxR)
                   ELSE IF a = 1 THEN Max(r - 1, 0)
                   ELSE r
        east    == a = 2 /\ DescAt(1 + r, 2 * c + 2) = ":"
        west    == ~east /\ a = 3 /\ DescAt(1 + r, 2 * c) = ":"
        pickup  == ~east /\ ~west /\ a = 4
        dropoff == ~east /\ ~west /\ ~pickup /\ a = 5
        pickOk  == pickup /\ p < nL /\ taxiloc = locs[p + 1]
        dropEnd == dropoff /\ taxiloc = locs[d + 1] /\ p = nL
        dropLoc == dropoff /\ ~dropEnd /\ InLocs(taxiloc) /\ p = nL
        newcol  == IF east THEN Min(c + 1, maxC)
                   ELSE IF west THEN Max(c - 1, 0)
                   ELSE c
        newpassidx == IF pickOk THEN nL
                      ELSE IF dropLoc THEN LocsIndex(taxiloc)
                      ELSE p
        reward  == IF pickup /\ ~pickOk THEN -10
                   ELSE IF dropEnd THEN 20
                   ELSE IF dropoff /\ ~dropLoc THEN -10
                   ELSE -1
        done    == dropEnd
        newstate == encode(newrow, newcol, newpassidx, d)
    IN  << 1, newstate, reward, done >>

\* Sum of the numerators of isd over lo..hi (isd.sum() before normalising).
RECURSIVE SumRange(_, _, _)
SumRange(f, lo, hi) ==
    IF lo > hi THEN 0
    ELSE IF lo = hi THEN f[lo][1]
    ELSE LET mid == (lo + hi) \div 2
         IN  SumRange(f, lo, mid) + SumRange(f, mid + 1, hi)

-----------------------------------------------------------------------------
(* Construction: TaxiEnv.__init__ *)

Unset == << >>

BuildInit ==
    /\ pc = "start"
    /\ raised = "none"
    /\ desc = Unset /\ locs = Unset
    /\ nS = 0 /\ P = Unset /\ isd = Unset
    /\ row = 0 /\ col = 0

CodecIdle ==
    /\ cpc = "idle" /\ cargs = Unset /\ cidx = 0 /\ cres = Unset

\* No episode has been started.
RunIdle ==
    /\ curS = 0 /\ epi = "none" /\ picked = FALSE /\ dest0 = 0

Init ==
    /\ nL \in 1..MaxNumStops
    /\ BuildInit
    /\ CodecIdle
    /\ RunIdle

\* Lines 57-114: the if/elif chain binds MAP and locs only for a supported nL;
\* for any other nL the read of MAP on line 114 raises UnboundLocalError.
SelectMap ==
    /\ pc = "start"
    /\ IF nL \in SupportedL
       THEN /\ desc' = MapFor(nL)
            /\ locs' = LocsFor(nL)
            /\ pc' = "alloc"
            /\ UNCHANGED raised
       ELSE /\ pc' = "error"
            /\ raised' = "UnboundLocalError"
            /\ UNCHANGED << desc, locs >>
    /\ UNCHANGED << nL, nS, P, isd, row, col >>
    /\ UNCHANGED codecVars
    /\ UNCHANGED runVars

\* Lines 116-127: nS, isd = zeros(nS), P with an empty list per (s, a).
Allocate ==
    /\ pc = "alloc"
    /\ nS' = StateCount(nL)
    /\ isd' = [s \in 0..(StateCount(nL) - 1) |-> << 0, 1 >>]
    /\ P' = [s \in 0..(StateCount(nL) - 1) |-> [a \in 0..(nA - 1) |-> << >>]]
    /\ row' = 0 /\ col' = 0
    /\ pc' = "loop"
    /\ UNCHANGED << nL, raised, desc, locs >>
    /\ UNCHANGED codecVars
    /\ UNCHANGED runVars

\* Lines 132-165 for one (row, col, passidx, destidx): encode the state, count
\* it in isd if eligible, append one outcome per action.  tbl carries P and
\* isd; an index outside the table raises (IndexError on isd[state] or
\* KeyError on P[state], whichever line is reached first).
FillTuple(tbl, r, c, p, d) ==
    LET state == encode(r, c, p, d)
    IN  IF tbl.err
        THEN tbl
        ELSE IF state \notin DOMAIN tbl.P
        THEN [tbl EXCEPT !.err = TRUE,
                         !.exc = IF p < nL /\ p # d THEN "IndexError"
                                                    ELSE "KeyError"]
        ELSE [ P   |-> [tbl.P EXCEPT ![state] =
                          [a \in 0..(nA - 1) |->
                             Append(@[a], Outcome(r, c, p, d, a))]],
               isd |-> IF p < nL /\ p # d
                       THEN [tbl.isd EXCEPT ![state] = << @[1] + 1, @[2] >>]
                       ELSE tbl.isd,
               err |-> FALSE,
               exc |-> tbl.exc ]

\* Lines 130-131: "for passidx in range(nL+1): for destidx in range(nL)" at
\* one (row, col): the lo-th to hi-th (passidx, destidx) pair in loop order,
\* the first half of the range before the second.
RECURSIVE FillCell(_, _, _, _, _)
FillCell(tbl, r, c, lo, hi) ==
    IF lo > hi THEN tbl
    ELSE IF lo = hi THEN FillTuple(tbl, r, c, lo \div nL, lo % nL)
    ELSE LET mid  == (lo + hi) \div 2
             left == FillCell(tbl, r, c, lo, mid)
         IN  IF left.err THEN left
             ELSE FillCell(left, r, c, mid + 1, hi)

\* Lines 128-165: one iteration of "for col in range(5)": every passenger and
\* destination index at (row, col), then on to the next cell.
FillState ==
    /\ pc = "loop"
    /\ LET tbl == FillCell([P |-> P, isd |-> isd, err |-> FALSE, exc |-> raised],
                           row, col,
                           0, (nL + 1) * nL - 1)
       IN  IF tbl.err
           THEN /\ pc' = "error"
                /\ raised' = tbl.exc
                /\ UNCHANGED << P, isd, row, col >>
           ELSE /\ P' = tbl.P
                /\ isd' = tbl.isd
                /\ UNCHANGED raised
                /\ IF col < nC - 1
                   THEN /\ col' = col + 1
                        /\ UNCHANGED << row, pc >>
                   ELSE IF row < nR - 1
                   THEN /\ col' = 0
                        /\ row' = row + 1
                        /\ UNCHANGED pc
                   ELSE /\ pc' = "normalise"
                        /\ UNCHANGED << row, col >>
    /\ UNCHANGED << nL, desc, locs, nS >>
    /\ UNCHANGED codecVars
    /\ UNCHANGED runVars

\* Lines 166-167: isd /= isd.sum(); the table is handed to DiscreteEnv.
Normalise ==
    /\ pc = "normalise"
    /\ LET total == SumRange(isd, 0, nS - 1)
       IN  isd' = [s \in DOMAIN isd |-> << isd[s][1], total >>]
    /\ pc' = "done"
    /\ UNCHANGED << nL, raised, desc, locs, nS, P, row, col >>
    /\ UNCHANGED codecVars
    /\ UNCHANGED runVars

Next == SelectMap \/ Allocate \/ FillState \/ Normalise

Spec == Init /\ [][Next]_vars

-----------------------------------------------------------------------------
(* encode / decode round trips *)

ValidTuples(L) == (0..4) \X (0..4) \X (0..L) \X (0..(L - 1))

\* encode and decode read only the module global nL and their arguments, so
\* the round trip starts from a loaded module with no construction under way.
CodecInit ==
    /\ nL \in SupportedL
    /\ BuildInit
    /\ cpc = "call"
    /\ cargs \in ValidTuples(nL)
    /\ cidx = 0 /\ cres = Unset
    /\ RunIdle

EncodeCall ==
    /\ cpc = "call"
    /\ cidx' = encode(cargs[1], cargs[2], cargs[3], cargs[4])
    /\ cpc' = "encoded"
    /\ UNCHANGED << nL, cargs, cres >>
    /\ UNCHANGED buildVars
    /\ UNCHANGED runVars

DecodeCall ==
    /\ cpc = "encoded"
    /\ cres' = decode(cidx)
    /\ cpc' = "decoded"
    /\ UNCHANGED << nL, cargs, cidx >>
    /\ UNCHANGED buildVars
    /\ UNCHANGED runVars

NextCodec == EncodeCall \/ DecodeCall

SpecCodec == CodecInit /\ [][NextCodec]_vars

-----------------------------------------------------------------------------
(* decode applied to an arbitrary integer index *)

\* How far below 0 and beyond the last table row the indices handed to decode
\* reach.
IndexSlack == 3

DecodeInit ==
    /\ nL \in SupportedL
    /\ BuildInit
    /\ cpc = "index"
    /\ cargs = Unset
    /\ cidx \in (0 - IndexSlack)..(StateCount(nL) - 1 + IndexSlack)
    /\ cres = Unset
    /\ RunIdle

DecodeIndex ==
    /\ cpc = "index"
    /\ cres' = decode(cidx)
    /\ cpc' = "decoded"
    /\ UNCHANGED << nL, cargs, cidx >>
    /\ UNCHANGED buildVars
    /\ UNCHANGED runVars

NextDecode == DecodeIndex

SpecDecode == DecodeInit /\ [][NextDecode]_vars

-----------------------------------------------------------------------------
(* Episodes on the constructed environment: reset and step of the base      *)
(* environment, which samples over isd and over the outcomes of P[s][a].    *)

\* reset(): the current state is drawn from the states isd gives weight.  An
\* episode is started on a fresh environment or once the previous one is over.
Reset ==
    /\ pc = "done"
    /\ epi \in {"none", "over"}
    /\ \E s0 \in { x \in 0..(nS - 1) : isd[x][1] > 0 } :
          /\ curS' = s0
          /\ dest0' = s0 % nL
    /\ epi' = "running"
    /\ picked' = FALSE
    /\ UNCHANGED nL
    /\ UNCHANGED buildVars
    /\ UNCHANGED codecVars

\* step(a): one of the outcomes recorded in P[self.s][a] is drawn; its next state
\* becomes the current state and a done outcome ends the episode.
StepAction(a) ==
    /\ pc = "done"
    /\ epi = "running"
    /\ \E k \in 1..Len(P[curS][a]) :
          LET o == P[curS][a][k]
          IN  /\ curS' = o[2]
              /\ picked' = (picked \/ (a = 4 /\ o[3] = -1))
              /\ epi' = IF o[4] THEN "over" ELSE "running"
    /\ UNCHANGED << nL, dest0 >>
    /\ UNCHANGED buildVars
    /\ UNCHANGED codecVars

Step == \E a \in 0..(nA - 1) : StepAction(a)

NextRun == SelectMap \/ Allocate \/ FillState \/ Normalise \/ Reset \/ Step

SpecRun == Init /\ [][NextRun]_vars

-----------------------------------------------------------------------------
(* Properties of the constructed table *)

Built == pc = "done"

Actions == 0..(nA - 1)

\* The state index the table files tuple t under.
IndexOf(t) == encode(t[1], t[2], t[3], t[4])

\* The outcomes recorded for tuple t's state index and action a.
Entry(t, a) == P[IndexOf(t)][a]

\* Entry (t, a) holds at least one outcome and every outcome it holds is o.
RecordedAs(t, a, o) ==
    /\ Len(Entry(t, a)) >= 1
    /\ \A k \in 1..Len(Entry(t, a)) : Entry(t, a)[k] = o

\* The tuple is a delivery: passenger in the taxi, taxi on the destination.
AtDestination(t) == t[3] = nL /\ << t[1], t[2] >> = locs[t[4] + 1]

\* The taxi stands on the passenger's location and the passenger is waiting.
AtPassenger(t) == t[3] < nL /\ << t[1], t[2] >> = locs[t[3] + 1]

\* A start state: passenger waiting somewhere other than the destination.
Eligible(t) == t[3] < nL /\ t[3] # t[4]

\* C1: after construction, for every state index s in 0..nS-1 and every action
\* a, P[s][a] is a list of exactly one outcome, whose probability is 1.0.
C1_ExactlyOneOutcome ==
    Built =>
        \A s \in 0..(nS - 1) : \A a \in Actions :
            /\ Len(P[s][a]) = 1
            /\ P[s][a][1][1] = 1

\* C2: for every supported nL and every valid tuple, decode(encode(tuple))
\* passes its assert and returns exactly that tuple.
C2_RoundTrip ==
    cpc = "decoded" => (cres.ok /\ cres.val = cargs)

\* C3: dropoff with the passenger in the taxi on the destination is recorded
\* with reward +20 and done = TRUE, and no other (state, action) pair has an
\* outcome with done = TRUE or reward +20.
C3_DeliveryIffDone ==
    Built =>
        /\ \A t \in ValidTuples(nL) : \A a \in Actions :
              /\ Len(Entry(t, a)) >= 1
              /\ \A k \in 1..Len(Entry(t, a)) :
                    LET o == Entry(t, a)[k]
                    IN  IF a = 5 /\ AtDestination(t)
                        THEN o[3] = 20 /\ o[4] = TRUE
                        ELSE o[3] # 20 /\ o[4] = FALSE
        /\ \A s \in 0..(nS - 1) :
              (\A t \in ValidTuples(nL) : IndexOf(t) # s) =>
                  \A a \in Actions : \A k \in 1..Len(P[s][a]) :
                      P[s][a][k][3] # 20 /\ P[s][a][k][4] = FALSE

\* C4: pickup on the passenger's location with the passenger waiting is
\* recorded as next state encode(row, col, nL, destidx), reward -1, done FALSE.
C4_PickupSucceeds ==
    Built =>
        \A t \in ValidTuples(nL) :
            AtPassenger(t) =>
                RecordedAs(t, 4, << 1, encode(t[1], t[2], nL, t[4]), -1, FALSE >>)

\* C5: east moves to col+1 exactly when the map character at template row
\* 1+row, column 2*col+2 is ":", west moves to col-1 exactly when the character
\* at column 2*col is ":"; otherwise the column is unchanged; row, passenger
\* and destination are unchanged, reward is -1 and done is FALSE.
C5_EastWestFollowMap ==
    Built =>
        \A t \in ValidTuples(nL) :
            LET eastcol == IF desc[1 + t[1] + 1][2 * t[2] + 2 + 1] = ":"
                           THEN t[2] + 1 ELSE t[2]
                westcol == IF desc[1 + t[1] + 1][2 * t[2] + 1] = ":"
                           THEN t[2] - 1 ELSE t[2]
            IN  /\ eastcol \in 0..4 /\ westcol \in 0..4
                /\ t[2] = 4 => eastcol = 4
                /\ t[2] = 0 => westcol = 0
                /\ RecordedAs(t, 2, << 1, encode(t[1], eastcol, t[3], t[4]), -1, FALSE >>)
                /\ RecordedAs(t, 3, << 1, encode(t[1], westcol, t[3], t[4]), -1, FALSE >>)

\* C6: south yields row min(row+1, 4) and north yields row max(row-1, 0)
\* whatever the map says; column, passenger and destination are unchanged,
\* reward is -1 and done is FALSE.
C6_NorthSouthClamp ==
    Built =>
        \A t \in ValidTuples(nL) :
            LET south == IF t[1] + 1 < 4 THEN t[1] + 1 ELSE 4
                north == IF t[1] - 1 > 0 THEN t[1] - 1 ELSE 0
            IN  /\ RecordedAs(t, 0, << 1, encode(south, t[2], t[3], t[4]), -1, FALSE >>)
                /\ RecordedAs(t, 1, << 1, encode(north, t[2], t[3], t[4]), -1, FALSE >>)

\* C7: dropoff with the passenger in the taxi on a named location locs[k],
\* k # destidx, is recorded as next state encode(row, col, k, destidx),
\* reward -1, done FALSE.
C7_DropoffElsewhere ==
    Built =>
        \A t \in ValidTuples(nL) : \A k \in 0..(nL - 1) :
            (t[3] = nL /\ << t[1], t[2] >> = locs[k + 1] /\ k # t[4]) =>
                RecordedAs(t, 5, << 1, encode(t[1], t[2], k, t[4]), -1, FALSE >>)

\* C8: pickup with the passenger already in the taxi or the taxi off the
\* passenger's location, and dropoff with the passenger not in the taxi or the
\* taxi on no named location, are recorded with reward -10, done FALSE and the
\* current state as next state; reward -10 occurs for no other pair.
C8_IllegalMovesPenalised ==
    Built =>
        \A t \in ValidTuples(nL) : \A a \in Actions :
            LET illegal ==
                    \/ a = 4 /\ ~AtPassenger(t)
                    \/ a = 5 /\ (t[3] # nL \/
                                 \A k \in 1..Len(locs) : locs[k] # << t[1], t[2] >>)
            IN  IF illegal
                THEN RecordedAs(t, a, << 1, IndexOf(t), -10, FALSE >>)
                ELSE \A k \in 1..Len(Entry(t, a)) : Entry(t, a)[k][3] # -10

\* C9: the initial distribution gives every eligible tuple's state index the
\* weight 1/N with N = 25 * nL * (nL - 1), and the weights sum to 1.
C9_UniformInitialWeights ==
    Built =>
        LET N == 25 * nL * (nL - 1)
        IN  /\ \A t \in ValidTuples(nL) :
                  Eligible(t) =>
                      /\ isd[IndexOf(t)][2] # 0
                      /\ isd[IndexOf(t)][1] * N = isd[IndexOf(t)][2]
            /\ SumRange(isd, 0, nS - 1) = isd[0][2]

\* C10: every state index of a tuple with passidx = destidx or passidx = nL,
\* and every state index in 0..nS-1 of no eligible tuple, has initial
\* probability zero.
C10_IneligibleWeightZero ==
    Built =>
        /\ \A t \in ValidTuples(nL) :
              (t[3] = t[4] \/ t[3] = nL) => isd[IndexOf(t)][1] = 0
        /\ \A s \in 0..(nS - 1) :
              (\A t \in ValidTuples(nL) : ~(Eligible(t) /\ IndexOf(t) = s)) =>
                  isd[s][1] = 0

\* C11: the state count nS handed to the base environment is 5*5*(nL+1)*nL,
\* the number of valid (row, col, passidx, destidx) tuples.
C11_StateCountIsTupleCount ==
    Built =>
        /\ nS = 5 * 5 * (nL + 1) * nL
        /\ nS = Cardinality(ValidTuples(nL))

\* C12: for every integer index i, decode(i) either fails its assert or
\* returns a tuple with row, col in 0..4, passidx in 0..nL and destidx in
\* 0..nL-1; and it fails for every i outside 0..nS-1.
C12_DecodeFailsOrValid ==
    (cpc = "decoded" /\ cargs = Unset) =>
        /\ cres.ok => cres.val \in ValidTuples(nL)
        /\ cidx \notin 0..(StateCount(nL) - 1) => ~cres.ok

\* C13: with a location count outside {2,4,5,6,8} construction ends in an
\* explicit "unsupported location count" error, before any table or initial
\* distribution exists, and never yields a constructed environment.
C13_UnsupportedCountRejected ==
    (nL \notin SupportedL /\ pc # "start") =>
        /\ pc = "error"
        /\ raised = "UnsupportedLocationCount"
        /\ P = Unset /\ isd = Unset

\* The state indices with an action one of whose recorded outcomes is done or
\* leads into S.
StepsInto(S) ==
    { s \in 0..(nS - 1) :
        \E a \in Actions : \E k \in 1..Len(P[s][a]) :
            P[s][a][k][4] = TRUE \/ P[s][a][k][2] \in S }

\* The state indices from which some finite sequence of table outcomes ends
\* with a done transition: the least set closed under StepsInto.
RECURSIVE CanFinish(_)
CanFinish(S) ==
    LET T == S \cup StepsInto(S)
    IN  IF T = S THEN S ELSE CanFinish(T)

\* The state indices with non-zero initial probability.
StartStates == { s \in 0..(nS - 1) : isd[s][1] > 0 }

\* C14: from every state with non-zero initial probability some finite
\* sequence of actions, followed through the table, ends with a transition
\* whose done flag is TRUE.
C14_EveryStartSolvable ==
    Built => StartStates \subseteq CanFinish({})

\* C14 witness: construction finished for eight locations and some start
\* state is solvable only in more than one step.
C14_Witness ==
    /\ Built /\ nL = 8
    /\ \E s \in StartStates : s \in CanFinish({}) /\ s \notin StepsInto({})

\* C16: construction never indexes P or isd out of range: every index encode
\* computes for a tuple and every stored next state lies in 0..nS-1, and after
\* construction every stored next state has a non-empty list for each action.
C16_TableClosed ==
    /\ nL \in SupportedL => pc # "error"
    /\ pc \in {"loop", "normalise", "done"} =>
          /\ \A t \in ValidTuples(nL) : IndexOf(t) \in 0..(nS - 1)
          /\ \A s \in 0..(nS - 1) : \A a \in Actions : \A k \in 1..Len(P[s][a]) :
                P[s][a][k][2] \in 0..(nS - 1)
    /\ Built =>
          \A s \in 0..(nS - 1) : \A a \in Actions : \A k \in 1..Len(P[s][a]) :
              \A b \in Actions : Len(P[P[s][a][k][2]][b]) >= 1

\* C16 witness: a finished table for eight locations holding an outcome that
\* leads to another state index.
C16_Witness ==
    /\ Built /\ nL = 8
    /\ \E s \in 0..(nS - 1) : \E a \in Actions :
          Len(P[s][a]) >= 1 /\ P[s][a][1][2] # s

\* C18: every outcome with done = TRUE or reward +20 stores as next state the
\* state index it is recorded under, and each delivery tuple's dropoff entry
\* holds the outcome (1.0, encode(row, col, nL, destidx), 20, TRUE): the
\* passenger stays "in taxi".
C18_DeliveryKeepsState ==
    Built =>
        /\ \A s \in 0..(nS - 1) : \A a \in Actions : \A k \in 1..Len(P[s][a]) :
              (P[s][a][k][4] = TRUE \/ P[s][a][k][3] = 20) => P[s][a][k][2] = s
        /\ \A t \in ValidTuples(nL) :
              AtDestination(t) =>
                  \E k \in 1..Len(Entry(t, 5)) :
                      Entry(t, 5)[k] = << 1, encode(t[1], t[2], nL, t[4]), 20, TRUE >>

\* C18 witness: a finished table in which a delivery's dropoff entry starts
\* with a done outcome.
C18_Witness ==
    /\ Built
    /\ \E t \in ValidTuples(nL) :
          AtDestination(t) /\ Len(Entry(t, 5)) >= 1 /\ Entry(t, 5)[1][4] = TRUE

\* C15: in every episode a transition with done = TRUE occurs only after an
\* earlier successful pickup (action 4, reward -1) of that episode, and no
\* start state has a done outcome for any action.
C15_DoneOnlyAfterPickup ==
    /\ epi = "over" => picked
    /\ Built =>
          \A x \in StartStates : \A a \in Actions : \A k \in 1..Len(P[x][a]) :
              P[x][a][k][4] = FALSE

\* C17: every state visited in an episode decodes to a tuple whose
\* destination index is the start state's and whose passenger index differs
\* from the destination index.
C17_DestinationFixedPassengerElsewhere ==
    epi \in {"running", "over"} =>
        /\ decode(curS).ok
        /\ decode(curS).val[4] = dest0
        /\ decode(curS).val[3] # decode(curS).val[4]

\* C19: east from (row, col) is recorded as a move to (row, col+1) exactly
\* when west from (row, col+1) is recorded as a move to (row, col), and every
\* recorded north or south outcome that changes the state is undone by the
\* opposite action from the state it leads to.
C19_MovesReversible ==
    Built =>
        /\ \A t \in ValidTuples(nL) :
              t[2] <= 3 =>
                  LET u == << t[1], t[2] + 1, t[3], t[4] >>
                  IN  RecordedAs(t, 2, << 1, IndexOf(u), -1, FALSE >>)
                        <=> RecordedAs(u, 3, << 1, IndexOf(t), -1, FALSE >>)
        /\ \A t \in ValidTuples(nL) : \A a \in {0, 1} :
              \A k \in 1..Len(Entry(t, a)) :
                  LET n == Entry(t, a)[k][2]
                  IN  n # IndexOf(t) =>
                          /\ Len(P[n][1 - a]) >= 1
                          /\ \A j \in 1..Len(P[n][1 - a]) :
                                P[n][1 - a][j][2] = IndexOf(t)

====
